---- MODULE Spec2Model ----
(***************************************************************************)
(* Model of src/accelerate_DDP.py: a data-parallel training script that is *)
(* run as world_size processes (one per device, possibly on several        *)
(* nodes).  Every process executes the same module top to bottom; the      *)
(* processes meet in collective operations (torch.distributed.barrier,     *)
(* the gradient all-reduce inside accelerator.backward, accelerator.gather *)
(* and the aggregation inside evaluate_accuracy_and_loss).                 *)
(*                                                                         *)
(* A collective completes for all processes at once, and only when every   *)
(* process of the world is blocked in a collective of the same kind.       *)
(* Straight-line code of one process between two collectives is one        *)
(* action; the order of its statements is kept in the logs ops and passes. *)
(*                                                                         *)
(* Abstractions of numeric data:                                           *)
(*  - a tensor is a sequence; y_pred holds the arg-max class per sample;   *)
(*  - a quotient a / n is kept as the pair <<a, n>>;                       *)
(*  - the learning rate is identified with the schedule position           *)
(*    (the scheduler's step count) it is a function of.                    *)
(***************************************************************************)
EXTENDS Integers, Sequences, FiniteSets, TLC

\* ---------------------------------------------------------------- bounds
MaxProcs == 3
MaxEpochs == 2
MaxBatches == 2
MaxShard == 1
MaxGathered == 18  \* cap on the samples gathered in a run, over all processes
TestLen == 2
Classes == {0, 1}

VARIABLES
    world_size,         \* torch.distributed.get_world_size()
    local_rank,         \* int(os.environ["LOCAL_RANK"]), per process
    num_epoches,        \* cfg_dict.get("epoch")
    batchsize,          \* cfg_dict.get("batch_size")
    train_len,          \* len(train_data_loader) before prepare_data_loader
    pc,                 \* position of each process in the script
    loader_len,         \* len(train_data_loader) after prepare_data_loader
    num_training_steps, \* argument given to get_cosine_schedule_with_warmup
    sched_pos,          \* position of the wrapped warmup-cosine schedule
    sched_calls,        \* number of lr_scheduler.step() calls
    epoch,              \* epochs completed = next value of the loop variable
    batch_idx,          \* batches fetched in the current epoch
    train_loss_sum, train_acc_sum, n,
    y, y_pred, l,       \* tensors of the current batch
    train_acc, train_loss, val_acc, val_loss, lr_decay_list,
    ops,                \* operations performed for the current batch, in order
    passes,             \* "train" per batch and "eval" per evaluation pass, in order
    colls,              \* collectives entered so far, per kind
    plotted,            \* <<>> or <<[x |-> .., series lengths]>> when the plot was drawn
    saved,              \* number of plt.savefig calls
    g_correct, g_n      \* per epoch: correctly classified / all training samples, over all processes

cfgvars == <<world_size, local_rank, num_epoches, batchsize, train_len>>
schedvars == <<loader_len, num_training_steps, sched_pos, sched_calls>>
loopvars == <<epoch, batch_idx, train_loss_sum, train_acc_sum, n>>
tensorvars == <<y, y_pred, l>>
seriesvars == <<train_acc, train_loss, val_acc, val_loss, lr_decay_list>>
logvars == <<ops, passes, colls>>
reportvars == <<plotted, saved>>
ghostvars == <<g_correct, g_n>>
vars == <<cfgvars, pc, schedvars, loopvars, tensorvars, seriesvars, logvars,
          reportvars, ghostvars>>

Procs == 1..world_size

\* ------------------------------------------------------- pure operators

\* Local ranks handed out by the launcher: every node numbers its processes
\* 0, 1, 2, ...; so rank 0 exists and each rank r+1 occurs at most as often
\* as rank r.  Processes are listed node-major up to symmetry (sorted ranks).
Topologies(k) ==
    {f \in [1..k -> 0..(k - 1)] :
        /\ f[1] = 0
        /\ \A i \in 1..(k - 1) : f[i] <= f[i + 1]
        /\ \A r \in 1..(k - 1) :
              Cardinality({i \in 1..k : f[i] = r})
                 <= Cardinality({i \in 1..k : f[i] = r - 1})}

\* Accelerator(split_batches=True)
split_batches_off == FALSE
split_batches == TRUE

\* len() of the loader returned by prepare_data_loader (drop_last=True):
\* with split_batches each global batch is cut into world_size shards, so
\* the number of batches is unchanged; otherwise the batches are dealt out.
PreparedLen(len, k) == IF split_batches THEN len ELSE len \div k

\* schedule advances of one lr_scheduler.step() on the prepared scheduler
SchedAdvance(k) == IF split_batches THEN 1 ELSE k

\* samples one process receives per batch
ShardSize(bs, k) == IF split_batches THEN bs \div k ELSE bs

\* label of sample i of the shard of process p in batch b of epoch e
Label(e, b, p, i) == (e + b + p + i) % 2

RECURSIVE Cat(_, _)
Cat(t, k) == IF k = 0 THEN <<>> ELSE Cat(t, k - 1) \o t[k]

\* accelerator.gather: the tensors of all processes, concatenated in rank order
Gather_local(t, p) == t[p]
Gather(t, p) == Cat(t, world_size)

RECURSIVE SumSeq(_)
SumSeq(s) == IF s = <<>> THEN 0 ELSE Head(s) + SumSeq(Tail(s))

\* (y_pred.argmax(dim=1) == y).sum().item()
Correct(yp, yy) == Cardinality({i \in 1..Len(yy) : yp[i] = yy[i]})

\* stand-in for CrossEntropyLoss (a scalar per process): misclassified samples
Loss(yp, yy) == Len(yy) - Correct(yp, yy)

BatchOrder == <<"forward", "loss", "backward", "optimizer_step", "scheduler_step">>

IsPrefix(s, t) == Len(s) <= Len(t) /\ SubSeq(t, 1, Len(s)) = s

NoColls == [barrier |-> 0, allreduce |-> 0, gather |-> 0, evalagg |-> 0]

\* ------------------------------------------------------------------ Init
\* Runs the script can perform: the launcher sets LOCAL_RANK >= 0 in every
\* process, batch_size is a multiple of the number of processes (required by
\* split_batches), and the training set holds at least one full batch.
Init ==
    /\ world_size \in 1..MaxProcs
    /\ local_rank \in Topologies(world_size)
    /\ num_epoches \in 1..MaxEpochs
    /\ train_len \in 1..MaxBatches
    /\ batchsize \in {world_size * s : s \in 1..MaxShard}
    /\ world_size * batchsize * train_len * num_epoches <= MaxGathered
    /\ pc = [p \in Procs |-> "start"]
    /\ loader_len = [p \in Procs |-> 0]
    /\ num_training_steps = [p \in Procs |-> 0]
    /\ sched_pos = [p \in Procs |-> 0]
    /\ sched_calls = [p \in Procs |-> 0]
    /\ epoch = [p \in Procs |-> 0]
    /\ batch_idx = [p \in Procs |-> 0]
    /\ train_loss_sum = [p \in Procs |-> 0]
    /\ train_acc_sum = [p \in Procs |-> 0]
    /\ n = [p \in Procs |-> 0]
    /\ y = [p \in Procs |-> <<>>]
    /\ y_pred = [p \in Procs |-> <<>>]
    /\ l = [p \in Procs |-> <<>>]
    /\ train_acc = [p \in Procs |-> <<>>]
    /\ train_loss = [p \in Procs |-> <<>>]
    /\ val_acc = [p \in Procs |-> <<>>]
    /\ val_loss = [p \in Procs |-> <<>>]
    /\ lr_decay_list = [p \in Procs |-> <<>>]
    /\ ops = [p \in Procs |-> <<>>]
    /\ passes = [p \in Procs |-> <<>>]
    /\ colls = [p \in Procs |-> NoColls]
    /\ plotted = [p \in Procs |-> <<>>]
    /\ saved = [p \in Procs |-> 0]
    /\ g_correct = [e \in 0..(num_epoches - 1) |-> 0]
    /\ g_n = [e \in 0..(num_epoches - 1) |-> 0]

\* --------------------------------------------------- download barrier

\* line 56: if local_rank not in [-1, 0]
NeedsPreBarrier_inverted(r) == r \in {-1, 0}
NeedsPreBarrier(r) == r \notin {-1, 0}

\* line 62: if local_rank == 0
NeedsPostBarrier_never(r) == FALSE
NeedsPostBarrier(r) == r = 0

EnterColl(p, kind) == colls' = [colls EXCEPT ![p][kind] = @ + 1]

\* lines 56-57
DownloadGuard(p) ==
    /\ pc[p] = "start"
    /\ IF NeedsPreBarrier(local_rank[p])
          THEN /\ pc' = [pc EXCEPT ![p] = "barrier_pre"]
               /\ EnterColl(p, "barrier")
          ELSE /\ pc' = [pc EXCEPT ![p] = "construct_train"]
               /\ UNCHANGED colls
    /\ UNCHANGED <<cfgvars, schedvars, loopvars, tensorvars, seriesvars, ops,
                   passes, reportvars, ghostvars>>

\* line 59: cifar10_train = CIFAR10(train=True, download=True)
ConstructTrain(p) ==
    /\ pc[p] = "construct_train"
    /\ pc' = [pc EXCEPT ![p] = "construct_test"]
    /\ UNCHANGED <<cfgvars, schedvars, loopvars, tensorvars, seriesvars, logvars,
                   reportvars, ghostvars>>

\* line 60: cifar10_test = CIFAR10(train=False, download=True)
ConstructTest(p) ==
    /\ pc[p] = "construct_test"
    /\ pc' = [pc EXCEPT ![p] = "constructed"]
    /\ UNCHANGED <<cfgvars, schedvars, loopvars, tensorvars, seriesvars, logvars,
                   reportvars, ghostvars>>

\* lines 62-63
ReleaseGuard(p) ==
    /\ pc[p] = "constructed"
    /\ IF NeedsPostBarrier(local_rank[p])
          THEN /\ pc' = [pc EXCEPT ![p] = "barrier_post"]
               /\ EnterColl(p, "barrier")
          ELSE /\ pc' = [pc EXCEPT ![p] = "setup"]
               /\ UNCHANGED colls
    /\ UNCHANGED <<cfgvars, schedvars, loopvars, tensorvars, seriesvars, ops,
                   passes, reportvars, ghostvars>>

\* kind of the collective a process is blocked in, "none" when it is running
Blocked(q) ==
    CASE q \in {"barrier_pre", "barrier_post"} -> "barrier"
      [] q = "backward" -> "allreduce"
      [] q \in {"gather_y", "gather_y_pred", "gather_l"} -> "gather"
      [] q = "eval_gather" -> "evalagg"
      [] OTHER -> "none"

AllBlockedIn(kind) == \A p \in Procs : Blocked(pc[p]) = kind

\* torch.distributed.barrier() returns once every process has entered it
BarrierComplete ==
    /\ AllBlockedIn("barrier")
    /\ pc' = [p \in Procs |->
                 IF pc[p] = "barrier_pre" THEN "construct_train" ELSE "setup"]
    /\ UNCHANGED <<cfgvars, schedvars, loopvars, tensorvars, seriesvars, logvars,
                   reportvars, ghostvars>>

\* lines 65-90: loaders, model, optimizer, schedule, prepare_*, empty series
Setup(p) ==
    /\ pc[p] = "setup"
    /\ num_training_steps' = [num_training_steps EXCEPT ![p] = train_len * num_epoches]
    /\ loader_len' = [loader_len EXCEPT ![p] = PreparedLen(train_len, world_size)]
    /\ train_acc' = [train_acc EXCEPT ![p] = <<>>]
    /\ train_loss' = [train_loss EXCEPT ![p] = <<>>]
    /\ val_acc' = [val_acc EXCEPT ![p] = <<>>]
    /\ val_loss' = [val_loss EXCEPT ![p] = <<>>]
    /\ lr_decay_list' = [lr_decay_list EXCEPT ![p] = <<>>]
    /\ pc' = [pc EXCEPT ![p] = "epoch_head"]
    /\ UNCHANGED <<cfgvars, sched_pos, sched_calls, loopvars, tensorvars, logvars,
                   reportvars, ghostvars>>

\* -------------------------------------------------------- epoch loop

\* lines 91-95: for epoch in range(num_epoches): reset the accumulators
EpochHead(p) ==
    /\ pc[p] = "epoch_head"
    /\ IF epoch[p] < num_epoches
          THEN /\ train_loss_sum' = [train_loss_sum EXCEPT ![p] = 0]
               /\ train_acc_sum' = [train_acc_sum EXCEPT ![p] = 0]
               /\ n' = [n EXCEPT ![p] = 0]
               /\ batch_idx' = [batch_idx EXCEPT ![p] = 0]
               /\ pc' = [pc EXCEPT ![p] = "fetch"]
          ELSE /\ pc' = [pc EXCEPT ![p] = "report"]
               /\ UNCHANGED <<train_loss_sum, train_acc_sum, n, batch_idx>>
    /\ UNCHANGED <<cfgvars, schedvars, epoch, tensorvars, seriesvars, logvars,
                   reportvars, ghostvars>>

\* line 98: lr_decay_list.append(optimizer.state_dict()["param_groups"][0]["lr"])
RecordLr_skip(list, lr) == list
RecordLr(list, lr) == Append(list, lr)

\* lines 97-108: next batch, record lr, forward, loss, zero_grad, backward
\* (accelerator.backward blocks in the gradient all-reduce)
FetchBatch(p) ==
    /\ pc[p] = "fetch"
    /\ batch_idx[p] < loader_len[p]
    /\ LET sz == ShardSize(batchsize, world_size)
           yy == [i \in 1..sz |-> Label(epoch[p], batch_idx[p], p, i)]
       IN \E yp \in [1..sz -> Classes] :
            /\ y' = [y EXCEPT ![p] = yy]
            /\ y_pred' = [y_pred EXCEPT ![p] = yp]
            /\ l' = [l EXCEPT ![p] = <<Loss(yp, yy)>>]
            /\ g_correct' = [g_correct EXCEPT ![epoch[p]] = @ + Correct(yp, yy)]
            /\ g_n' = [g_n EXCEPT ![epoch[p]] = @ + sz]
    /\ lr_decay_list' = [lr_decay_list EXCEPT ![p] = RecordLr(@, sched_pos[p])]
    /\ ops' = [ops EXCEPT ![p] = <<"forward", "loss", "backward">>]
    /\ passes' = [passes EXCEPT ![p] = Append(@, "train")]
    /\ EnterColl(p, "allreduce")
    /\ pc' = [pc EXCEPT ![p] = "backward"]
    /\ UNCHANGED <<cfgvars, schedvars, loopvars, train_acc, train_loss, val_acc,
                   val_loss, reportvars>>

\* the gradient all-reduce of one step completes on every process
AllReduceComplete ==
    /\ AllBlockedIn("allreduce")
    /\ pc' = [p \in Procs |-> "optimizer_step"]
    /\ UNCHANGED <<cfgvars, schedvars, loopvars, tensorvars, seriesvars, logvars,
                   reportvars, ghostvars>>

\* lines 109-112: optimizer.step(); y = accelerator.gather(y)
OptimizerStep_omitted(p) ==
    /\ pc[p] = "optimizer_step"
    /\ EnterColl(p, "gather")
    /\ pc' = [pc EXCEPT ![p] = "gather_y"]
    /\ UNCHANGED <<cfgvars, schedvars, loopvars, tensorvars, seriesvars, ops, passes,
                   reportvars, ghostvars>>
OptimizerStep(p) ==
    /\ pc[p] = "optimizer_step"
    /\ ops' = [ops EXCEPT ![p] = Append(@, "optimizer_step")]
    /\ EnterColl(p, "gather")
    /\ pc' = [pc EXCEPT ![p] = "gather_y"]
    /\ UNCHANGED <<cfgvars, schedvars, loopvars, tensorvars, seriesvars, passes,
                   reportvars, ghostvars>>

GatherYComplete ==
    /\ \A p \in Procs : pc[p] = "gather_y"
    /\ y' = [p \in Procs |-> Gather(y, p)]
    /\ pc' = [p \in Procs |-> "call_gather_y_pred"]
    /\ UNCHANGED <<cfgvars, schedvars, loopvars, y_pred, l, seriesvars, logvars,
                   reportvars, ghostvars>>

\* line 113: y_pred = accelerator.gather(y_pred)
GatherYPred_skipped(p) ==
    /\ pc[p] = "call_gather_y_pred"
    /\ pc' = [pc EXCEPT ![p] = "call_gather_l"]
    /\ UNCHANGED <<cfgvars, schedvars, loopvars, tensorvars, seriesvars, logvars,
                   reportvars, ghostvars>>
GatherYPred(p) ==
    /\ pc[p] = "call_gather_y_pred"
    /\ EnterColl(p, "gather")
    /\ pc' = [pc EXCEPT ![p] = "gather_y_pred"]
    /\ UNCHANGED <<cfgvars, schedvars, loopvars, tensorvars, seriesvars, ops, passes,
                   reportvars, ghostvars>>

GatherYPredComplete ==
    /\ \A p \in Procs : pc[p] = "gather_y_pred"
    /\ y_pred' = [p \in Procs |-> Gather(y_pred, p)]
    /\ pc' = [p \in Procs |-> "call_gather_l"]
    /\ UNCHANGED <<cfgvars, schedvars, loopvars, y, l, seriesvars, logvars,
                   reportvars, ghostvars>>

\* line 114: l = accelerator.gather(l)
GatherL(p) ==
    /\ pc[p] = "call_gather_l"
    /\ EnterColl(p, "gather")
    /\ pc' = [pc EXCEPT ![p] = "gather_l"]
    /\ UNCHANGED <<cfgvars, schedvars, loopvars, tensorvars, seriesvars, ops, passes,
                   reportvars, ghostvars>>

GatherLComplete ==
    /\ \A p \in Procs : pc[p] = "gather_l"
    /\ l' = [p \in Procs |-> Gather(l, p)]
    /\ pc' = [p \in Procs |-> "accumulate"]
    /\ UNCHANGED <<cfgvars, schedvars, loopvars, y, y_pred, seriesvars, logvars,
                   reportvars, ghostvars>>

\* lines 116-123: accumulate loss / correct / n, lr_scheduler.step()
AccumulateAndStep(p) ==
    /\ pc[p] = "accumulate"
    /\ train_loss_sum' = [train_loss_sum EXCEPT ![p] = @ + SumSeq(l[p])]
    /\ train_acc_sum' = [train_acc_sum EXCEPT ![p] = @ + Correct(y_pred[p], y[p])]
    /\ n' = [n EXCEPT ![p] = @ + Len(y[p])]
    /\ sched_calls' = [sched_calls EXCEPT ![p] = @ + 1]
    /\ sched_pos' = [sched_pos EXCEPT ![p] = @ + SchedAdvance(world_size)]
    /\ ops' = [ops EXCEPT ![p] = Append(@, "scheduler_step")]
    /\ batch_idx' = [batch_idx EXCEPT ![p] = @ + 1]
    /\ pc' = [pc EXCEPT ![p] = "fetch"]
    /\ UNCHANGED <<cfgvars, loader_len, num_training_steps, epoch, tensorvars,
                   seriesvars, passes, colls, reportvars, ghostvars>>

\* line 97 exhausted, line 125: model.eval()
EndOfBatches_early(p) ==
    /\ pc[p] = "fetch"
    /\ batch_idx[p] >= 1
    /\ pc' = [pc EXCEPT ![p] = "eval"]
    /\ UNCHANGED <<cfgvars, schedvars, loopvars, tensorvars, seriesvars, logvars,
                   reportvars, ghostvars>>
EndOfBatches(p) ==
    /\ pc[p] = "fetch"
    /\ ~(batch_idx[p] < loader_len[p])
    /\ pc' = [pc EXCEPT ![p] = "eval"]
    /\ UNCHANGED <<cfgvars, schedvars, loopvars, tensorvars, seriesvars, logvars,
                   reportvars, ghostvars>>

\* line 126: evaluate_accuracy_and_loss (utils.py): one pass over all TestLen
\* batches of the test loader, then the metrics are aggregated across processes
Evaluate(p) ==
    /\ pc[p] = "eval"
    /\ passes' = [passes EXCEPT ![p] = Append(@, "eval")]
    /\ EnterColl(p, "evalagg")
    /\ pc' = [pc EXCEPT ![p] = "eval_gather"]
    /\ UNCHANGED <<cfgvars, schedvars, loopvars, tensorvars, seriesvars, ops,
                   reportvars, ghostvars>>

EvaluateComplete ==
    /\ AllBlockedIn("evalagg")
    /\ pc' = [p \in Procs |-> "append"]
    /\ UNCHANGED <<cfgvars, schedvars, loopvars, tensorvars, seriesvars, logvars,
                   reportvars, ghostvars>>

\* lines 128-136: append the epoch's four metrics, next epoch
AppendEpoch_noValLoss(p) ==
    /\ pc[p] = "append"
    /\ train_acc' = [train_acc EXCEPT ![p] = Append(@, <<train_acc_sum[p], n[p]>>)]
    /\ train_loss' = [train_loss EXCEPT ![p] = Append(@, <<train_loss_sum[p], n[p]>>)]
    /\ val_acc' = [val_acc EXCEPT ![p] = Append(@, TestLen)]
    /\ epoch' = [epoch EXCEPT ![p] = @ + 1]
    /\ pc' = [pc EXCEPT ![p] = "epoch_head"]
    /\ UNCHANGED <<cfgvars, schedvars, batch_idx, train_loss_sum, train_acc_sum, n,
                   tensorvars, val_loss, lr_decay_list, logvars, reportvars, ghostvars>>
AppendEpoch(p) ==
    /\ pc[p] = "append"
    /\ train_acc' = [train_acc EXCEPT ![p] = Append(@, <<train_acc_sum[p], n[p]>>)]
    /\ train_loss' = [train_loss EXCEPT ![p] = Append(@, <<train_loss_sum[p], n[p]>>)]
    /\ val_acc' = [val_acc EXCEPT ![p] = Append(@, TestLen)]
    /\ val_loss' = [val_loss EXCEPT ![p] = Append(@, TestLen)]
    /\ epoch' = [epoch EXCEPT ![p] = @ + 1]
    /\ pc' = [pc EXCEPT ![p] = "epoch_head"]
    /\ UNCHANGED <<cfgvars, schedvars, batch_idx, train_loss_sum, train_acc_sum, n,
                   tensorvars, lr_decay_list, logvars, reportvars, ghostvars>>

\* ---------------------------------------------------------- reporting

\* lines 137-159: duration; if local_rank == 0: plot the series and savefig
Report(p) ==
    /\ pc[p] = "report"
    /\ IF local_rank[p] = 0
          THEN /\ plotted' = [plotted EXCEPT ![p] =
                     <<[x |-> num_epoches,
                        train_loss |-> Len(train_loss[p]),
                        val_loss |-> Len(val_loss[p]),
                        train_acc |-> Len(train_acc[p]),
                        val_acc |-> Len(val_acc[p]),
                        lr_x |-> Len(lr_decay_list[p]),
                        lr |-> Len(lr_decay_list[p])]>>]
               /\ saved' = [saved EXCEPT ![p] = @ + 1]
          ELSE UNCHANGED <<plotted, saved>>
    /\ pc' = [pc EXCEPT ![p] = "done"]
    /\ UNCHANGED <<cfgvars, schedvars, loopvars, tensorvars, seriesvars, logvars,
                   ghostvars>>

\* ------------------------------------------------------- specification

Next ==
    \/ \E p \in Procs : DownloadGuard(p)
    \/ \E p \in Procs : ConstructTrain(p)
    \/ \E p \in Procs : ConstructTest(p)
    \/ \E p \in Procs : ReleaseGuard(p)
    \/ \E p \in Procs : Setup(p)
    \/ \E p \in Procs : EpochHead(p)
    \/ \E p \in Procs : FetchBatch(p)
    \/ \E p \in Procs : OptimizerStep(p)
    \/ \E p \in Procs : GatherYPred(p)
    \/ \E p \in Procs : GatherL(p)
    \/ \E p \in Procs : AccumulateAndStep(p)
    \/ \E p \in Procs : EndOfBatches(p)
    \/ \E p \in Procs : Evaluate(p)
    \/ \E p \in Procs : AppendEpoch(p)
    \/ \E p \in Procs : Report(p)
    \/ BarrierComplete
    \/ AllReduceComplete
    \/ GatherYComplete
    \/ GatherYPredComplete
    \/ GatherLComplete
    \/ EvaluateComplete

Spec == Init /\ [][Next]_vars

\* the run does not stop while some process can take a step or a collective
\* that every process has entered can complete
FairSpec == Init /\ [][Next]_vars /\ WF_vars(Next)

AllDone == \A p \in Procs : pc[p] = "done"

\* ------------------------------------------------------------- claims

Count(s, v) == Cardinality({i \in 1..Len(s) : s[i] = v})

MidBatch == {"backward", "optimizer_step", "gather_y", "call_gather_y_pred",
             "gather_y_pred", "call_gather_l", "gather_l", "accumulate"}

BeforeConstruct == {"start", "barrier_pre"}
Constructing == {"construct_train", "construct_test"}

\* C1: no process whose local rank is not 0 starts constructing a dataset
\* before every process with local rank 0 has constructed both datasets.
C1_DownloadBarrier ==
    \A p \in Procs :
        (local_rank[p] # 0 /\ pc[p] \notin BeforeConstruct)
            => \A q \in Procs :
                  local_rank[q] = 0 => pc[q] \notin (BeforeConstruct \cup Constructing)

C1_Witness ==
    /\ \E p \in Procs : local_rank[p] # 0 /\ pc[p] = "construct_train"
    /\ Cardinality({q \in Procs : local_rank[q] = 0}) >= 2

\* C2: for every batch the process performs forward, loss, backward,
\* optimizer step and scheduler step in that order, each once; a batch that
\* is finished has had all five, and there is one scheduler step per batch.
C2_BatchOrder ==
    \A p \in Procs :
        /\ IsPrefix(ops[p], BatchOrder)
        /\ pc[p] \in MidBatch => Count(passes[p], "train") = sched_calls[p] + 1
        /\ pc[p] \notin MidBatch =>
              /\ Count(passes[p], "train") = sched_calls[p]
              /\ sched_calls[p] > 0 => ops[p] = BatchOrder

C2_Witness ==
    \E p \in Procs :
        /\ pc[p] = "fetch" /\ epoch[p] >= 1 /\ batch_idx[p] >= 1
        /\ ops[p] = BatchOrder

\* the run of one process: per epoch loader_len training batches, then one evaluation
ExpectedPasses(epochs, len) ==
    [i \in 1..(epochs * (len + 1)) |-> IF i % (len + 1) = 0 THEN "eval" ELSE "train"]

\* C3: every epoch has exactly one evaluation pass, after its last training
\* batch and before the next epoch's first; none earlier or in between.
C3_EvalPerEpoch ==
    \A p \in Procs :
        /\ IsPrefix(passes[p], ExpectedPasses(num_epoches, loader_len[p]))
        /\ pc[p] \in {"report", "done"} =>
              passes[p] = ExpectedPasses(num_epoches, loader_len[p])
        /\ pc[p] = "epoch_head" => Count(passes[p], "eval") = epoch[p]

C3_Witness ==
    \E p \in Procs :
        /\ pc[p] = "done" /\ num_epoches >= 2 /\ train_len >= 2
        /\ Count(passes[p], "eval") = num_epoches

\* C4: train_acc, train_loss, val_acc and val_loss always have the same
\* length, the number of completed epochs; when the plot is drawn each has
\* num_epoches entries, as many as the x axis 1..num_epoches.
C4_SeriesLengths ==
    \A p \in Procs :
        /\ Len(train_acc[p]) = epoch[p]
        /\ Len(train_loss[p]) = epoch[p]
        /\ Len(val_acc[p]) = epoch[p]
        /\ Len(val_loss[p]) = epoch[p]
        /\ plotted[p] # <<>> =>
              LET d == plotted[p][1]
              IN /\ d.x = num_epoches
                 /\ d.train_loss = d.x /\ d.val_loss = d.x
                 /\ d.train_acc = d.x /\ d.val_acc = d.x

C4_Witness ==
    \E p \in Procs : plotted[p] # <<>> /\ num_epoches >= 2 /\ Len(val_loss[p]) = 2

\* C5: a run writes a single image: only one process (the one with local
\* rank 0) saves the plot, exactly once, after all its epochs are complete.
C5_SingleImage ==
    /\ Cardinality({p \in Procs : saved[p] > 0}) <= 1
    /\ \A p \in Procs :
          /\ saved[p] <= 1
          /\ saved[p] > 0 => local_rank[p] = 0 /\ epoch[p] = num_epoches
          /\ (pc[p] = "done" /\ local_rank[p] = 0) => saved[p] = 1

\* C6 as stated: one barrier, one gradient reduction per training step and
\* one metric aggregation across processes per epoch.
C6_OncePerEpoch ==
    \A p \in Procs :
        pc[p] = "epoch_head" =>
            /\ colls[p].barrier = 1
            /\ colls[p].allreduce = epoch[p] * loader_len[p]
            /\ colls[p].gather + colls[p].evalagg = epoch[p]

\* C6 amended: one barrier, one gradient reduction per training step, three
\* gathers per training step, and one aggregation per epoch in the evaluation.
C6_ThreeGathersPerStep ==
    \A p \in Procs :
        /\ colls[p].gather =
              3 * sched_calls[p]
                + (CASE pc[p] \in {"gather_y", "call_gather_y_pred"} -> 1
                     [] pc[p] \in {"gather_y_pred", "call_gather_l"} -> 2
                     [] pc[p] \in {"gather_l", "accumulate"} -> 3
                     [] OTHER -> 0)
        /\ pc[p] = "epoch_head" =>
              /\ colls[p].barrier = 1
              /\ colls[p].allreduce = epoch[p] * loader_len[p]
              /\ colls[p].gather = 3 * epoch[p] * loader_len[p]
              /\ colls[p].evalagg = epoch[p]

C6_Witness ==
    \E p \in Procs :
        /\ pc[p] = "epoch_head" /\ epoch[p] = 1 /\ world_size >= 2
        /\ colls[p].gather = 3 * train_len

\* C7 as stated: after k completed epochs the learning-rate series has k entries.
C7_PerEpochLr ==
    \A p \in Procs : pc[p] = "epoch_head" => Len(lr_decay_list[p]) = epoch[p]

\* C7 amended: the learning-rate series has one entry per training batch;
\* after k completed epochs it has k * len(train_data_loader) entries.
C7_PerBatchLr ==
    \A p \in Procs :
        /\ Len(lr_decay_list[p]) = Count(passes[p], "train")
        /\ pc[p] = "epoch_head" => Len(lr_decay_list[p]) = epoch[p] * loader_len[p]

C7_Witness ==
    \E p \in Procs :
        pc[p] = "epoch_head" /\ epoch[p] = 2 /\ train_len = 2 /\ Len(lr_decay_list[p]) = 4

\* what a process has entered when it is done
FinalColls ==
    [barrier |-> 1,
     allreduce |-> num_epoches * train_len,
     gather |-> 3 * num_epoches * train_len,
     evalagg |-> num_epoches]

\* C8: with every process scheduled fairly, every process reaches the end of
\* the script, having entered the barrier once and the same collectives as
\* every other process; nobody is left waiting in a collective.
C8_Terminates == <>(\A p \in Procs : pc[p] = "done" /\ colls[p] = FinalColls)

C8_Witness ==
    /\ world_size >= 3
    /\ \E p, q \in Procs : local_rank[p] = 0 /\ local_rank[q] # 0
    /\ \A p \in Procs : pc[p] = "done" /\ colls[p] = FinalColls

\* C9: the schedule is stepped exactly num_training_steps =
\* len(train_data_loader) * num_epoches times over the run, never beyond,
\* on every process whatever the world size, and the learning-rate series
\* has that many entries.
C9_ScheduleSteps ==
    \A p \in Procs :
        /\ pc[p] \notin {"start", "barrier_pre", "construct_train", "construct_test",
                         "constructed", "barrier_post", "setup"} =>
              /\ num_training_steps[p] = train_len * num_epoches
              /\ loader_len[p] = train_len
              /\ sched_pos[p] <= num_training_steps[p]
              /\ sched_pos[p] = sched_calls[p]
        /\ pc[p] \in {"report", "done"} =>
              /\ sched_calls[p] = num_training_steps[p]
              /\ sched_pos[p] = num_training_steps[p]
              /\ Len(lr_decay_list[p]) = num_training_steps[p]

C9_Witness ==
    \E p \in Procs :
        pc[p] = "done" /\ world_size >= 2 /\ sched_pos[p] = 4 /\ num_training_steps[p] = 4

\* C10: the training accuracy a process appends for an epoch is the number
\* of correctly classified samples over all processes and batches of the
\* epoch divided by the number of samples over all processes and batches;
\* every process appends the same value.
C10_GlobalAccuracy ==
    \A p \in Procs :
        \A i \in 1..Len(train_acc[p]) :
            /\ train_acc[p][i][2] = g_n[i - 1]
            /\ train_acc[p][i][2] = train_len * batchsize
            /\ train_acc[p][i][1] * g_n[i - 1] = g_correct[i - 1] * train_acc[p][i][2]
            /\ \A q \in Procs : Len(train_acc[q]) >= i => train_acc[q][i] = train_acc[p][i]

C10_Witness ==
    \E p, q \in Procs :
        /\ p # q
        /\ Len(train_acc[p]) >= 1 /\ Len(train_acc[q]) >= 1
        /\ train_acc[p][1][1] > 0
        /\ train_acc[p][1][1] < train_acc[p][1][2]

====
